---- MODULE Spec2Model ----
(***************************************************************************)
(* A model of box_blur.cpp: producer threads push the paths of a directory *)
(* onto a global circular buffer guarded by one mutex and two condition    *)
(* variables; consumer threads pop a path, decode it, blur its channels    *)
(* and write the result.  The box blur itself is modelled step by step as  *)
(* a second specification over a single channel.                           *)
(***************************************************************************)
EXTENDS Integers, Sequences, FiniteSets

(* ------------------------------ sizes --------------------------------- *)

\* The program's buffer of 1000 slots and pool of 10 consumers are scaled
\* down; MaxFiles is the largest directory and MaxDim the largest channel
\* side the model explores.
BUFFER_SIZE == 2
NUM_CONSUMERS == 2
MaxFiles == 3
MaxDim == 6

\* main starts NUM_PRODUCERS producers; the model also explores one more
NUM_PRODUCERS == 1
MaxProducers == NUM_PRODUCERS + 1

FILTER_SIZE == 5

\* counter, in and out are unsigned: 0 - 1 wraps to the largest value.  The
\* model checker's integers are 32 bits signed, so the wrap is kept at 16 bits.
UINT == 2 ^ 16

ProducerIds == 1 .. MaxProducers
ConsumerIds == 1 .. NUM_CONSUMERS
P(i) == <<"producer", i>>
C(i) == <<"consumer", i>>
Tasks == {P(i) : i \in ProducerIds} \cup {C(i) : i \in ConsumerIds}

\* a path is a file number of the directory; 0 is the empty string
NoPath == 0

VARIABLES
    \* the environment
    nproducers,     \* how many producer threads main starts
    nfiles,         \* entries of the input directory, in iteration order 1..nfiles
    inputExists,    \* filesystem::exists(INPUT_DIRECTORY)
    outdir,         \* "absent", "dir" or "file": what OUTPUT_DIRECTORY is
    \* the globals
    buffer, in, out, counter,
    m,              \* the set of tasks holding mutex m
    \* the threads
    pc,             \* each task's position
    next,           \* each producer's directory_iterator: entries already taken
    path,           \* a producer's input_image_path, a consumer's image_name
    written,        \* the output files written
    aborted,        \* "none", or the exception that left a thread function and so
                    \* ended the process (std::terminate)
    \* history
    pushed,         \* the paths given to add_buffer, in order
    popped,         \* the paths get_buffer returned, in order
    blocked,        \* per task, within one push or pop: "no", or "waiting" once
                    \* it found the buffer full (empty), or "released" once a
                    \* get_buffer (add_buffer) has run since
    \* apply_box_blur on one channel
    height, width, image, result, bpc, row, col,
    oob             \* an index outside the channel has been used

envVars == <<nproducers, nfiles, inputExists>>
queueVars == <<buffer, in, out, counter>>
histVars == <<pushed, popped, blocked>>
blurVars == <<height, width, image, result, bpc, row, col, oob>>
poolVars == <<envVars, outdir, queueVars, m, pc, next, path, written, aborted, histVars>>
vars == <<poolVars, blurVars>>

Producers == {P(i) : i \in 1 .. nproducers}
Consumers == {C(i) : i \in ConsumerIds}
Running == Producers \cup Consumers

(* --------------------------- circular buffer --------------------------- *)

\* mutant: in wraps one slot too late
add_bufferLateWrap(i) ==
    /\ buffer' = [buffer EXCEPT ![in] = i]
    /\ in' = (in + 1) % (BUFFER_SIZE + 1)
    /\ counter' = (counter + 1) % UINT
    /\ out' = out

\* add_buffer(i)
add_buffer(i) ==
    /\ buffer' = [buffer EXCEPT ![in] = i]
    /\ in' = (in + 1) % BUFFER_SIZE
    /\ counter' = (counter + 1) % UINT
    /\ out' = out

\* mutant: the newest element is returned instead of the oldest
get_buffer_valueNewest == buffer[(in + BUFFER_SIZE - 1) % BUFFER_SIZE]

\* get_buffer(): the value returned is buffer[out]
get_buffer_value == buffer[out]

\* mutant: out is not advanced
get_bufferStuck ==
    /\ out' = out
    /\ counter' = (counter - 1) % UINT
    /\ UNCHANGED <<buffer, in>>

get_buffer ==
    /\ out' = (out + 1) % BUFFER_SIZE
    /\ counter' = (counter - 1) % UINT
    /\ UNCHANGED <<buffer, in>>

(* ------------------------- mutex and conditions ------------------------ *)

\* mutant: the lock is taken whether or not another task holds it
LockNoExclusion(t) == m' = m \cup {t}

\* std::unique_lock<std::mutex> lock(m): blocks until no task holds m
Lock(t) == m = {} /\ m' = {t}

\* the lock's destructor at the end of the loop body
Unlock(t) == m' = m \ {t}

\* condition_variable::wait(lock) releases the lock while the task is suspended
WaitRelease(t) == m' = m \ {t}

\* the tasks suspended in space_available.wait and in data_available.wait
space_available == {t \in Producers : pc[t] = "p_wait"}
data_available == {t \in Consumers : pc[t] = "c_wait"}

\* mutant: the notification is lost, no suspended task leaves its wait
NotifyOneLost(waiting, t, after, woken) == pc' = [pc EXCEPT ![t] = after]

\* notify_one(): one suspended task, if any, leaves its wait and competes
\* for the mutex again
NotifyOne(waiting, t, after, woken) ==
    IF waiting = {}
    THEN pc' = [pc EXCEPT ![t] = after]
    ELSE \E w \in waiting : pc' = [pc EXCEPT ![t] = after, ![w] = woken]

(* ------------------------------ producer ------------------------------- *)

Goto(t, label) == pc' = [pc EXCEPT ![t] = label]

\* an operation of the other kind has run: the tasks of `side` that were
\* waiting for it are no longer held back
Release(side) ==
    [t \in Running |-> IF t \in side /\ blocked[t] = "waiting" THEN "released" ELSE blocked[t]]

\* the directory checks at the head of producer_func; an exception thrown
\* here leaves the thread function, which ends the process
P_Start(t) ==
    /\ pc[t] = "p_start"
    /\ aborted = "none"
    /\ IF ~inputExists
       THEN aborted' = "DirectoryDoesNotExist" /\ UNCHANGED <<outdir, pc>>
       ELSE IF outdir = "absent"
       THEN \E created \in BOOLEAN :
               IF created
               THEN outdir' = "dir" /\ Goto(t, "p_next") /\ UNCHANGED aborted
               ELSE aborted' = "CreatingDirectoryError" /\ UNCHANGED <<outdir, pc>>
       ELSE IF outdir # "dir"
       THEN aborted' = "SameNameError" /\ UNCHANGED <<outdir, pc>>
       ELSE Goto(t, "p_next") /\ UNCHANGED <<outdir, aborted>>
    /\ UNCHANGED <<blurVars, envVars, queueVars, m, next, path, written, histVars>>

\* the head of the for loop over directory_iterator{INPUT_DIRECTORY}
P_Next(t) ==
    /\ pc[t] = "p_next"
    /\ aborted = "none"
    /\ IF next[t] < nfiles
       THEN /\ path' = [path EXCEPT ![t] = next[t] + 1]
            /\ next' = [next EXCEPT ![t] = next[t] + 1]
            /\ Goto(t, "p_lock")
       ELSE Goto(t, "p_done") /\ UNCHANGED <<path, next>>
    /\ UNCHANGED <<blurVars, envVars, outdir, queueVars, m, written, aborted, histVars>>

P_Lock(t) ==
    /\ pc[t] = "p_lock"
    /\ aborted = "none"
    /\ Lock(t)
    /\ Goto(t, "p_test")
    /\ UNCHANGED <<blurVars, envVars, outdir, queueVars, next, path, written, aborted, histVars>>

\* mutant: the producer never waits for space
P_TestNoWait(t) ==
    /\ pc[t] = "p_test"
    /\ aborted = "none"
    /\ Goto(t, "p_add")
    /\ UNCHANGED <<blurVars, envVars, outdir, queueVars, m, next, path, written, aborted,
                   histVars>>

\* while (counter == BUFFER_SIZE) space_available.wait(lock);
P_Test(t) ==
    /\ pc[t] = "p_test"
    /\ aborted = "none"
    /\ IF counter = BUFFER_SIZE
       THEN /\ WaitRelease(t)
            /\ Goto(t, "p_wait")
            /\ blocked' = [blocked EXCEPT ![t] = "waiting"]
       ELSE Goto(t, "p_add") /\ UNCHANGED <<m, blocked>>
    /\ UNCHANGED <<blurVars, envVars, outdir, queueVars, next, path, written, aborted,
                   pushed, popped>>

\* wait() takes the mutex again before it returns to the while test
P_Reacquire(t) ==
    /\ pc[t] = "p_reacq"
    /\ aborted = "none"
    /\ Lock(t)
    /\ Goto(t, "p_test")
    /\ UNCHANGED <<blurVars, envVars, outdir, queueVars, next, path, written, aborted, histVars>>

P_Add(t) ==
    /\ pc[t] = "p_add"
    /\ aborted = "none"
    /\ add_buffer(path[t])
    /\ pushed' = Append(pushed, path[t])
    /\ blocked' = Release(Consumers)
    /\ Goto(t, "p_notify")
    /\ UNCHANGED <<blurVars, envVars, outdir, m, next, path, written, aborted, popped>>

\* data_available.notify_one()
P_Notify(t) ==
    /\ pc[t] = "p_notify"
    /\ aborted = "none"
    /\ NotifyOne(data_available, t, "p_unlock", "c_reacq")
    /\ UNCHANGED <<blurVars, envVars, outdir, queueVars, m, next, path, written, aborted, histVars>>

\* the end of the loop body destroys lock and input_image_path
P_Unlock(t) ==
    /\ pc[t] = "p_unlock"
    /\ aborted = "none"
    /\ Unlock(t)
    /\ path' = [path EXCEPT ![t] = NoPath]
    /\ blocked' = [blocked EXCEPT ![t] = "no"]
    /\ Goto(t, "p_next")
    /\ UNCHANGED <<blurVars, envVars, outdir, queueVars, next, written, aborted, pushed, popped>>

(* ------------------------------ consumer ------------------------------- *)

C_Lock(t) ==
    /\ pc[t] = "c_lock"
    /\ aborted = "none"
    /\ Lock(t)
    /\ Goto(t, "c_test")
    /\ UNCHANGED <<blurVars, envVars, outdir, queueVars, next, path, written, aborted, histVars>>

\* mutant: a consumer that finds the buffer empty once the producers have
\* returned leaves consumer_func
C_TestReturnWhenDone(t) ==
    /\ pc[t] = "c_test"
    /\ aborted = "none"
    /\ IF counter = 0
       THEN /\ WaitRelease(t)
            /\ Goto(t, IF \A p \in Producers : pc[p] = "p_done" THEN "c_done" ELSE "c_wait")
            /\ blocked' = [blocked EXCEPT ![t] = "waiting"]
       ELSE Goto(t, "c_get") /\ UNCHANGED <<m, blocked>>
    /\ UNCHANGED <<blurVars, envVars, outdir, queueVars, next, path, written, aborted,
                   pushed, popped>>

\* while (counter == 0) data_available.wait(lock);
C_Test(t) ==
    /\ pc[t] = "c_test"
    /\ aborted = "none"
    /\ IF counter = 0
       THEN /\ WaitRelease(t)
            /\ Goto(t, "c_wait")
            /\ blocked' = [blocked EXCEPT ![t] = "waiting"]
       ELSE Goto(t, "c_get") /\ UNCHANGED <<m, blocked>>
    /\ UNCHANGED <<blurVars, envVars, outdir, queueVars, next, path, written, aborted,
                   pushed, popped>>

\* mutant: `if` in place of `while`: a notified consumer pops without
\* testing counter again
C_ReacquireNoRetest(t) ==
    /\ pc[t] = "c_reacq"
    /\ aborted = "none"
    /\ Lock(t)
    /\ Goto(t, "c_get")
    /\ UNCHANGED <<blurVars, envVars, outdir, queueVars, next, path, written, aborted, histVars>>

\* wait() takes the mutex again before it returns to the while test
C_Reacquire(t) ==
    /\ pc[t] = "c_reacq"
    /\ aborted = "none"
    /\ Lock(t)
    /\ Goto(t, "c_test")
    /\ UNCHANGED <<blurVars, envVars, outdir, queueVars, next, path, written, aborted, histVars>>

\* string image_name = get_buffer();
C_Get(t) ==
    /\ pc[t] = "c_get"
    /\ aborted = "none"
    /\ path' = [path EXCEPT ![t] = get_buffer_value]
    /\ get_buffer
    /\ popped' = Append(popped, get_buffer_value)
    /\ blocked' = Release(Producers)
    /\ Goto(t, "c_notify")
    /\ UNCHANGED <<blurVars, envVars, outdir, m, next, written, aborted, pushed>>

\* mutant: the consumer notifies data_available, the condition it waits on
C_NotifyDataAvailable(t) ==
    /\ pc[t] = "c_notify"
    /\ aborted = "none"
    /\ NotifyOne(data_available, t, "c_load", "c_reacq")
    /\ UNCHANGED <<blurVars, envVars, outdir, queueVars, m, next, path, written, aborted, histVars>>

\* space_available.notify_one()
C_Notify(t) ==
    /\ pc[t] = "c_notify"
    /\ aborted = "none"
    /\ NotifyOne(space_available, t, "c_load", "p_reacq")
    /\ UNCHANGED <<blurVars, envVars, outdir, queueVars, m, next, path, written, aborted, histVars>>

\* load_image(image_name) throws when stbi_load returns no data; nothing
\* catches it
C_Load(t) ==
    /\ pc[t] = "c_load"
    /\ aborted = "none"
    /\ \E data \in BOOLEAN :
          IF ~data
          THEN aborted' = "runtime_error" /\ UNCHANGED pc
          ELSE Goto(t, "c_blur") /\ UNCHANGED aborted
    /\ UNCHANGED <<blurVars, envVars, outdir, queueVars, m, next, path, written, histVars>>

\* apply_box_blur on each of the NUM_CHANNELS channels
C_Blur(t) ==
    /\ pc[t] = "c_blur"
    /\ aborted = "none"
    /\ Goto(t, "c_write")
    /\ UNCHANGED <<blurVars, envVars, outdir, queueVars, m, next, path, written, aborted, histVars>>

\* write_image(output_image_path, output_image) throws when stbi_write_png
\* fails; nothing catches it
C_Write(t) ==
    /\ pc[t] = "c_write"
    /\ aborted = "none"
    /\ \E ok \in BOOLEAN :
          IF ~ok
          THEN aborted' = "runtime_error" /\ UNCHANGED <<pc, written>>
          ELSE /\ written' = written \cup {path[t]}
               /\ Goto(t, "c_unlock")
               /\ UNCHANGED aborted
    /\ UNCHANGED <<blurVars, envVars, outdir, queueVars, m, next, path, histVars>>

\* the end of the while (true) body destroys lock and image_name
C_Unlock(t) ==
    /\ pc[t] = "c_unlock"
    /\ aborted = "none"
    /\ Unlock(t)
    /\ path' = [path EXCEPT ![t] = NoPath]
    /\ blocked' = [blocked EXCEPT ![t] = "no"]
    /\ Goto(t, "c_lock")
    /\ UNCHANGED <<blurVars, envVars, outdir, queueVars, next, written, aborted, pushed, popped>>

\* mutant: a task whose wait returned goes on without testing again
SpuriousWakeNoRetest(t) ==
    /\ pc[t] \in {"p_wait", "c_wait"}
    /\ aborted = "none"
    /\ Lock(t)
    /\ Goto(t, IF pc[t] = "p_wait" THEN "p_add" ELSE "c_get")
    /\ UNCHANGED <<blurVars, envVars, outdir, queueVars, next, path, written, aborted, histVars>>

\* a wait may return without a notification: the task takes the mutex again
\* and returns to its while test
SpuriousWake(t) ==
    /\ pc[t] \in {"p_wait", "c_wait"}
    /\ aborted = "none"
    /\ Lock(t)
    /\ Goto(t, IF pc[t] = "p_wait" THEN "p_test" ELSE "c_test")
    /\ UNCHANGED <<blurVars, envVars, outdir, queueVars, next, path, written, aborted, histVars>>

(* --------------------------- the thread pool --------------------------- *)

BlurIdle ==
    /\ height = 0 /\ width = 0
    /\ image = <<>> /\ result = <<>>
    /\ bpc = "idle" /\ row = 0 /\ col = 0
    /\ oob = FALSE

\* the globals and the threads as main starts them
PoolInit ==
    /\ buffer = [i \in 0 .. BUFFER_SIZE - 1 |-> NoPath]
    /\ in = 0 /\ out = 0 /\ counter = 0
    /\ m = {}
    /\ pc = [t \in Running |-> IF t \in Producers THEN "p_start" ELSE "c_lock"]
    /\ next = [t \in Producers |-> 0]
    /\ path = [t \in Running |-> NoPath]
    /\ written = {}
    /\ aborted = "none"
    /\ pushed = <<>> /\ popped = <<>>
    /\ blocked = [t \in Running |-> "no"]

Init ==
    /\ nproducers \in 1 .. MaxProducers
    /\ nfiles \in 0 .. MaxFiles
    /\ inputExists \in BOOLEAN
    /\ outdir \in {"absent", "dir", "file"}
    /\ PoolInit
    /\ BlurIdle

Next ==
    \/ \E t \in Producers : P_Start(t)
    \/ \E t \in Producers : P_Next(t)
    \/ \E t \in Producers : P_Lock(t)
    \/ \E t \in Producers : P_Test(t)
    \/ \E t \in Producers : P_Reacquire(t)
    \/ \E t \in Producers : P_Add(t)
    \/ \E t \in Producers : P_Notify(t)
    \/ \E t \in Producers : P_Unlock(t)
    \/ \E t \in Consumers : C_Lock(t)
    \/ \E t \in Consumers : C_Test(t)
    \/ \E t \in Consumers : C_Reacquire(t)
    \/ \E t \in Consumers : C_Get(t)
    \/ \E t \in Consumers : C_Notify(t)
    \/ \E t \in Consumers : C_Load(t)
    \/ \E t \in Consumers : C_Blur(t)
    \/ \E t \in Consumers : C_Write(t)
    \/ \E t \in Consumers : C_Unlock(t)
    \/ \E t \in Running : SpuriousWake(t)

Spec == Init /\ [][Next]_vars

\* every step of a thread but the return of a wait that nothing notified
ThreadStep(t) ==
    \/ P_Start(t) \/ P_Next(t) \/ P_Lock(t) \/ P_Test(t) \/ P_Reacquire(t)
    \/ P_Add(t) \/ P_Notify(t) \/ P_Unlock(t)
    \/ C_Lock(t) \/ C_Test(t) \/ C_Reacquire(t) \/ C_Get(t) \/ C_Notify(t)
    \/ C_Load(t) \/ C_Blur(t) \/ C_Write(t) \/ C_Unlock(t)

\* the scheduler runs every thread that stays able to take a step; a
\* std::mutex promises no more than that to a thread competing for it, and
\* a wait need not return without a notification
FairSpec == Spec /\ \A t \in Tasks : WF_vars(t \in Running /\ ThreadStep(t))

(* --------------------------- apply_box_blur ---------------------------- *)

\* int pad = filter_size / 2
pad == FILTER_SIZE \div 2

Rows == 0 .. height - 1
Cols == 0 .. width - 1

\* the sum of the filter window centred at (r, c)
RECURSIVE SumOver(_, _, _)
SumOver(img, r, cells) ==
    IF cells = {} THEN 0
    ELSE LET k == CHOOSE x \in cells : TRUE
         IN img[r + k[1]][k[2]] + SumOver(img, r, cells \ {k})

\* mutant: the window loops stop one column early (k_col < pad)
WindowSumShort(img, r, c) ==
    SumOver(img, r, {<<k_row, c + k_col>> : k_row \in -pad .. pad, k_col \in -pad .. pad - 1})

WindowSum(img, r, c) ==
    SumOver(img, r, {<<k_row, c + k_col>> : k_row \in -pad .. pad, k_col \in -pad .. pad})

\* mutant: the sum is divided by the side of the window, not by its area
AverageBySide(sum) == (sum \div FILTER_SIZE) % 256

\* float average = sum / (filter_size * filter_size), stored in a uint8_t:
\* the sum of at most 25 samples is exact in a float, the store truncates
Average(sum) == (sum \div (FILTER_SIZE * FILTER_SIZE)) % 256

InGrid(r, c) == r \in Rows /\ c \in Cols

\* the cells the window centred at (r, c) reads
Window(r, c) == {<<r + k_row, c + k_col>> : k_row \in -pad .. pad, k_col \in -pad .. pad}

\* One statement of a loop body that uses the cells `used` of image and
\* result and leaves result as `stored` when all of them are in the grid.
\* vector::operator[] does not check its index: with a cell outside the grid
\* the behaviour is undefined, and the call may crash, or go on with the
\* outside accesses lost, or go on with a pixel of result overwritten (the
\* model keeps one overwritten pixel, the first, and two stray values).
Access(used, stored) ==
    IF \A k \in used : InGrid(k[1], k[2])
    THEN result' = stored /\ UNCHANGED <<bpc, oob>>
    ELSE /\ oob' = TRUE
         /\ \/ bpc' = "crashed" /\ UNCHANGED result
            \/ result' = stored /\ UNCHANGED bpc
            \/ /\ \E v \in {0, 255} : result' = [stored EXCEPT ![0][0] = v]
               /\ UNCHANGED bpc

\* result with result[r][c] = image[r][c] for the cells of `cells` in the grid
Copied(cells) ==
    [r \in Rows |-> [c \in Cols |->
        IF <<r, c>> \in cells THEN image[r][c] ELSE result[r][c]]]

\* the nested loops over the pixels that have a whole window
B_Interior ==
    /\ bpc = "interior"
    /\ IF row >= height - pad
       THEN bpc' = "left_right" /\ row' = 0 /\ col' = 0 /\ UNCHANGED <<result, oob>>
       ELSE IF col >= width - pad
       THEN row' = row + 1 /\ col' = pad /\ UNCHANGED <<bpc, result, oob>>
       ELSE /\ Access(Window(row, col),
                      [result EXCEPT ![row][col] = Average(WindowSum(image, row, col))])
            /\ col' = col + 1
            /\ UNCHANGED row
    /\ UNCHANGED <<poolVars, height, width, image>>

\* mutant: the right-hand pixel is taken one column too far (width - col)
B_LeftRightOffByOne ==
    /\ bpc = "left_right"
    /\ IF row >= height
       THEN bpc' = "top_bottom" /\ row' = 0 /\ col' = 0 /\ UNCHANGED <<result, oob>>
       ELSE IF col >= pad
       THEN row' = row + 1 /\ col' = 0 /\ UNCHANGED <<bpc, result, oob>>
       ELSE /\ Access({<<row, col>>, <<row, width - col>>},
                      Copied({<<row, col>>, <<row, width - col>>}))
            /\ col' = col + 1
            /\ UNCHANGED row
    /\ UNCHANGED <<poolVars, height, width, image>>

\* for each row, the pad leftmost and the pad rightmost pixels are copied
B_LeftRight ==
    /\ bpc = "left_right"
    /\ IF row >= height
       THEN bpc' = "top_bottom" /\ row' = 0 /\ col' = 0 /\ UNCHANGED <<result, oob>>
       ELSE IF col >= pad
       THEN row' = row + 1 /\ col' = 0 /\ UNCHANGED <<bpc, result, oob>>
       ELSE /\ Access({<<row, col>>, <<row, width - col - 1>>},
                      Copied({<<row, col>>, <<row, width - col - 1>>}))
            /\ col' = col + 1
            /\ UNCHANGED row
    /\ UNCHANGED <<poolVars, height, width, image>>

\* mutant: only the top rows are copied
B_TopBottomTopOnly ==
    /\ bpc = "top_bottom"
    /\ IF col >= width
       THEN bpc' = "done" /\ row' = 0 /\ col' = 0 /\ UNCHANGED <<result, oob>>
       ELSE IF row >= pad
       THEN col' = col + 1 /\ row' = 0 /\ UNCHANGED <<bpc, result, oob>>
       ELSE /\ Access({<<row, col>>}, Copied({<<row, col>>}))
            /\ row' = row + 1
            /\ UNCHANGED col
    /\ UNCHANGED <<poolVars, height, width, image>>

\* for each column, the pad topmost and the pad bottommost pixels are copied
B_TopBottom ==
    /\ bpc = "top_bottom"
    /\ IF col >= width
       THEN bpc' = "done" /\ row' = 0 /\ col' = 0 /\ UNCHANGED <<result, oob>>
       ELSE IF row >= pad
       THEN col' = col + 1 /\ row' = 0 /\ UNCHANGED <<bpc, result, oob>>
       ELSE /\ Access({<<row, col>>, <<height - row - 1, col>>},
                      Copied({<<row, col>>, <<height - row - 1, col>>}))
            /\ row' = row + 1
            /\ UNCHANGED col
    /\ UNCHANGED <<poolVars, height, width, image>>

\* the channels the model filters: a sample at (r, c) is a linear ramp from
\* a base value, wrapped to 8 bits; slope 0 in both directions is uniform
Sample(base, dr, dc, r, c) == (base + dr * r + dc * c) % 256

Ramp(h, w, base, dr, dc) ==
    [r \in 0 .. h - 1 |-> [c \in 0 .. w - 1 |-> Sample(base, dr, dc, r, c)]]

\* ramps from three base values, and the uniform channel of every sample value
Channels(h, w) ==
    {Ramp(h, w, base, dr, dc) : base \in {0, 100, 255}, dr \in {0, 37}, dc \in {0, 101}}
    \cup {Ramp(h, w, v, 0, 0) : v \in 0 .. 255}

\* the call apply_box_blur(image, FILTER_SIZE) on a channel with at least one
\* pixel: result is zero-filled
BlurInit ==
    /\ height \in 1 .. MaxDim
    /\ width \in 1 .. MaxDim
    /\ image \in Channels(height, width)
    /\ result = [r \in Rows |-> [c \in Cols |-> 0]]
    /\ bpc = "interior" /\ row = pad /\ col = pad
    /\ oob = FALSE

InitBlur ==
    /\ nproducers = NUM_PRODUCERS
    /\ nfiles = 0
    /\ inputExists = TRUE
    /\ outdir = "dir"
    /\ PoolInit
    /\ BlurInit

NextBlur == B_Interior \/ B_LeftRight \/ B_TopBottom

SpecBlur == InitBlur /\ [][NextBlur]_vars

(* ------------------------------ properties ----------------------------- *)

AllProducersDone == \A t \in Producers : pc[t] = "p_done"

\* how many times x occurs in the sequence s
Count(s, x) == Cardinality({i \in DOMAIN s : s[i] = x})

\* C1: the number of queued paths never leaves 0 .. BUFFER_SIZE, whatever the
\* interleaving of pushes and pops.
C1_CapacityInvariant == 0 <= counter /\ counter <= BUFFER_SIZE

\* C1 witness: with two producers the buffer is full again after pops have
\* already taken place.
C1_FullAfterPops == nproducers > 1 /\ counter = BUFFER_SIZE /\ Len(popped) > 0

\* C2: the paths popped are, as a multiset, among the paths pushed and equal
\* to them once as many pops as pushes have completed; every popped path is a
\* directory entry; and each path pushed and not yet popped still sits in the
\* slot add_buffer wrote it to.
C2_NoLossNoDuplication ==
    /\ \A x \in 0 .. nfiles : Count(popped, x) <= Count(pushed, x)
    /\ \A k \in DOMAIN popped : popped[k] \in 1 .. nfiles
    /\ Len(popped) = Len(pushed) =>
          \A x \in 0 .. nfiles : Count(popped, x) = Count(pushed, x)
    /\ Len(popped) <= Len(pushed)
    /\ \A j \in Len(popped) + 1 .. Len(pushed) : buffer[(j - 1) % BUFFER_SIZE] = pushed[j]

\* C2 witness: more paths than the buffer holds were pushed by every producer
\* and all of them have been popped.
C2_AllPoppedAfterWrap ==
    /\ nfiles > BUFFER_SIZE
    /\ AllProducersDone
    /\ Len(pushed) = nproducers * nfiles
    /\ Len(popped) = Len(pushed)

\* C3: with one producer the k-th pop returns the k-th path pushed, which is
\* the k-th directory entry.
C3_Fifo ==
    nproducers = 1 =>
        /\ Len(popped) <= Len(pushed)
        /\ \A k \in DOMAIN popped : popped[k] = pushed[k] /\ popped[k] = k

\* C3 witness: one producer, both indices have wrapped, and the second
\* consumer has just popped the last path.
C3_LastPopAfterWrap ==
    /\ nproducers = 1
    /\ nfiles > BUFFER_SIZE
    /\ Len(popped) = nfiles
    /\ pc[C(2)] = "c_notify"

\* C4: a producer that found the buffer full is not at add_buffer before a
\* get_buffer has run since, and a consumer that found it empty is not at
\* get_buffer before an add_buffer has run since.
C4_BlockingCorrectness ==
    \A t \in Running : pc[t] \in {"p_add", "c_get"} => blocked[t] # "waiting"

\* C4 witness: a consumer that found the buffer empty is at get_buffer after
\* an add_buffer, while a producer that found the buffer full has been
\* released by a get_buffer and is on its way to add_buffer.
C4_BlockedThenServed ==
    /\ \E t \in Consumers : pc[t] = "c_get" /\ blocked[t] = "released"
    /\ \E t \in Producers : pc[t] = "p_reacq" /\ blocked[t] = "released"

\* C5: get_buffer runs only with counter > 0 and add_buffer only with
\* counter < BUFFER_SIZE, and a task at its while test whose condition is
\* false goes (back) to waiting.
C5_RecheckAfterWake ==
    /\ [](\A t \in Running :
            /\ pc[t] = "c_get" => counter > 0
            /\ pc[t] = "p_add" => counter < BUFFER_SIZE)
    /\ [][\A t \in Running :
            /\ (pc[t] = "p_test" /\ counter = BUFFER_SIZE /\ pc'[t] # "p_test")
                   => pc'[t] = "p_wait"
            /\ (pc[t] = "c_test" /\ counter = 0 /\ pc'[t] # "c_test")
                   => pc'[t] = "c_wait"]_vars

\* C5 witness: a consumer that waited is back at its test after an add_buffer
\* ran, and finds the buffer empty because another consumer popped first.
C5_RacedWaiter ==
    \E t \in Consumers : pc[t] = "c_test" /\ blocked[t] = "released" /\ counter = 0

\* the positions at which a task reads or writes buffer, in, out or counter
Accessing == {"p_test", "p_add", "p_notify", "c_test", "c_get", "c_notify"}

\* C6: at most one task holds m; a task at a read or write of the buffer's
\* state holds it; a suspended task does not; the buffer's state changes only
\* in a step of the task that holds m before and after it.
C6_LockDiscipline ==
    /\ [](/\ Cardinality(m) <= 1
          /\ \A t \in Running :
                /\ pc[t] \in Accessing => t \in m
                /\ pc[t] \in {"p_wait", "c_wait"} => t \notin m)
    /\ [][queueVars' # queueVars =>
            \E t \in m : m' = m /\ pc'[t] # pc[t]]_vars

\* C6 witness: a consumer holds m at get_buffer while a producer is suspended
\* in space_available.wait.
C6_HolderAndWaiter ==
    \E t \in Consumers, u \in Producers :
        pc[t] = "c_get" /\ m = {t} /\ pc[u] = "p_wait"

\* the positions of the transform pipeline: load_image, apply_box_blur,
\* write_image
Transforming == {"c_load", "c_blur", "c_write"}

\* C7: a consumer executing the transform pipeline does not hold m, so that
\* another consumer can pop and the producer can push meanwhile.
C7_TransformOutsideLock ==
    \A t \in Consumers : pc[t] \in Transforming => t \notin m

\* C7, what the code does instead: no two consumers are ever in the
\* transform pipeline at the same time.
C7_TransformsSerialized ==
    Cardinality({t \in Consumers : pc[t] \in Transforming}) <= 1

\* C8: a failure of load_image or write_image does not stop the process: the
\* consumer, the other consumers and the producer keep running.
C8_ItemErrorRecoverable ==
    \A t \in Consumers : pc[t] \in {"c_load", "c_write"} => aborted # "runtime_error"

\* C9: a consumer blocked on the empty buffer after the producers have
\* returned (the only end of input the program has) is released instead of
\* staying blocked for ever.
C9_BlockedConsumersReleased ==
    \A t \in {C(i) : i \in ConsumerIds} :
        (pc[t] = "c_wait" /\ AllProducersDone /\ counter = 0) ~> (pc[t] # "c_wait")

\* the pixels within pad of an edge
Border(r, c) == r < pad \/ r >= height - pad \/ c < pad \/ c >= width - pad

\* C10: for a channel of at least FILTER_SIZE rows and columns, every pixel
\* of the returned channel in the outer pad rows or columns equals the input
\* pixel at the same position.
C10_BorderPassthrough ==
    (bpc = "done" /\ height >= FILTER_SIZE /\ width >= FILTER_SIZE) =>
        \A r \in Rows, c \in Cols : Border(r, c) => result[r][c] = image[r][c]

\* C10 witness: a returned channel with interior pixels, one of which the
\* filter changed, and whose bottom-right border pixel is not the fill value.
C10_BlurredWithBorder ==
    /\ bpc = "done" /\ height > FILTER_SIZE /\ width > FILTER_SIZE
    /\ \E r \in Rows, c \in Cols : ~Border(r, c) /\ result[r][c] # image[r][c]
    /\ image[height - 1][width - 1] # 0

\* the pixels that have a whole window
Interior(r, c) == pad <= r /\ r < height - pad /\ pad <= c /\ c < width - pad

\* the samples of the window centred at (r, c), row by row, added up
RECURSIVE NeighbourSum(_, _, _)
NeighbourSum(r, c, n) ==
    IF n = 0 THEN 0
    ELSE image[(r - pad) + ((n - 1) \div FILTER_SIZE)][(c - pad) + ((n - 1) % FILTER_SIZE)]
         + NeighbourSum(r, c, n - 1)

\* C11: in the returned channel every interior pixel is the sum of the
\* FILTER_SIZE x FILTER_SIZE input samples around it integer-divided by their
\* number, and lies in 0 .. 255.
C11_AveragingCorrectness ==
    bpc = "done" =>
        \A r \in Rows, c \in Cols :
            Interior(r, c) =>
                LET sum == NeighbourSum(r, c, FILTER_SIZE * FILTER_SIZE)
                    n == FILTER_SIZE * FILTER_SIZE
                IN /\ result[r][c] \in 0 .. 255
                   /\ n * result[r][c] <= sum
                   /\ sum < n * result[r][c] + n

\* C11 witness: a returned channel with an interior pixel whose mean is not
\* a whole number, so that the store truncated it.
C11_TruncatedMean ==
    /\ bpc = "done"
    /\ \E r \in Rows, c \in Cols :
          /\ Interior(r, c)
          /\ NeighbourSum(r, c, FILTER_SIZE * FILTER_SIZE) % (FILTER_SIZE * FILTER_SIZE) # 0
          /\ result[r][c] # image[r][c]

\* C14 as claimed: in and out are slots of the buffer and counter is
\* (in - out) mod BUFFER_SIZE in every reachable state.
C14_CounterIsIndexDifference ==
    /\ in \in 0 .. BUFFER_SIZE - 1
    /\ out \in 0 .. BUFFER_SIZE - 1
    /\ counter = (in - out) % BUFFER_SIZE

\* C14 as amended: in and out are slots of the buffer; counter is
\* (in - out) mod BUFFER_SIZE while the buffer is not full, and in = out when
\* it is full (counter = BUFFER_SIZE).
C14_IndexInvariant ==
    /\ in \in 0 .. BUFFER_SIZE - 1
    /\ out \in 0 .. BUFFER_SIZE - 1
    /\ IF counter = BUFFER_SIZE
       THEN in = out
       ELSE counter = (in - out) % BUFFER_SIZE

\* C14 witness: the buffer is full with both indices past slot 0.
C14_FullAfterAdvance == counter = BUFFER_SIZE /\ in = out /\ in > 0

\* C16: with more than one producer no directory entry is pushed twice.
C16_NoDuplicatePush ==
    nproducers > 1 => \A f \in 1 .. nfiles : Count(pushed, f) <= 1

\* every sample of the input channel is v
Uniform(v) == \A r \in Rows, c \in Cols : image[r][c] = v

\* C17: a channel of at least FILTER_SIZE rows and columns whose samples all
\* have the same value is returned unchanged, interior and border alike.
C17_UniformFixedPoint ==
    (bpc = "done" /\ height >= FILTER_SIZE /\ width >= FILTER_SIZE) =>
        \A v \in 0 .. 255 : Uniform(v) => result = image

\* C17 witness: a uniform channel of the largest sample value, with more than
\* one interior pixel, has been filtered.
C17_UniformFiltered ==
    /\ bpc = "done" /\ height > FILTER_SIZE /\ width > FILTER_SIZE
    /\ Uniform(255)
    /\ result[pad][pad] = 255

\* C18: an index outside the channel is used only when the channel has
\* fewer than pad rows or columns; a channel with at least pad rows and
\* columns but no interior pixel is returned unchanged.
C18_SmallGrid ==
    /\ oob => (height < pad \/ width < pad)
    /\ (/\ bpc = "done"
        /\ pad <= height /\ pad <= width
        /\ (height < FILTER_SIZE \/ width < FILTER_SIZE)) => (result = image /\ ~oob)

\* C18 witness: a channel of pad rows and more than FILTER_SIZE columns, not
\* all zero in a column only the top and bottom loop copies, was returned.
C18_SmallGridReturned ==
    /\ bpc = "done"
    /\ height = pad /\ width > FILTER_SIZE
    /\ image[height - 1][pad] # 0
    /\ ~Uniform(image[0][0])

\* a channel with fewer than pad rows made the function index outside it
C18_OutsideIndexUsed == oob /\ height < pad /\ width >= FILTER_SIZE

\* the steps in which a thread takes the mutex
TakesLock(t) == P_Lock(t) \/ P_Reacquire(t) \/ C_Lock(t) \/ C_Reacquire(t)

\* fair scheduling: besides running every thread that stays able to step,
\* the mutex is handed to every thread that is able to take it again and
\* again, so no thread is overtaken at m.lock() for ever
FairLockSpec ==
    /\ Spec
    /\ \A t \in Tasks : WF_vars(t \in Running /\ ThreadStep(t))
    /\ \A t \in Tasks : SF_vars(t \in Running /\ TakesLock(t))

\* load_image or write_image has thrown
TransformFailed == aborted = "runtime_error"

\* C12: under fair scheduling and with transforms that succeed, whenever
\* an item added by add_buffer has not been returned yet, get_buffer
\* eventually has returned every item added, in the order of the pushes; the
\* buffer does not stay non-empty while every consumer stays in
\* data_available.wait, nor below capacity while a producer stays in
\* space_available.wait.
C12_EveryItemConsumed ==
    /\ (Len(popped) < Len(pushed)) ~> (TransformFailed \/ popped = pushed)
    /\ []<>(TransformFailed \/ ~(counter > 0 /\ \A t \in Consumers : pc[t] = "c_wait"))
    /\ \A t \in {P(i) : i \in ProducerIds} :
          []<>(TransformFailed \/ ~(t \in Producers /\ counter < BUFFER_SIZE /\ pc[t] = "p_wait"))

\* C12 witness: more items than the buffer holds have all been consumed, a
\* producer and a consumer having been suspended on the way.
C12_AllConsumedAfterWaits ==
    /\ Len(pushed) > BUFFER_SIZE
    /\ popped = pushed
    /\ aborted = "none"
    /\ \E t \in Consumers : pc[t] = "c_wait"

\* one of the directory checks at the head of producer_func has thrown
StartFailed == aborted \in {"DirectoryDoesNotExist", "CreatingDirectoryError", "SameNameError"}

\* once every producer has returned, each has pushed each of the nfiles
\* entries of the directory exactly once
PushedEachOnce ==
    AllProducersDone =>
        /\ Len(pushed) = nproducers * nfiles
        /\ \A f \in 1 .. nfiles : Count(pushed, f) = nproducers

\* C13 as stated: with an input directory of nfiles entries (more than
\* BUFFER_SIZE included), fair scheduling and transforms that succeed, every
\* producer eventually returns, having pushed each entry exactly once.
C13_ProducerTerminatesGivenInput ==
    /\ <>(~inputExists \/ TransformFailed \/ AllProducersDone)
    /\ []PushedEachOnce

\* C13: with fair scheduling, transforms that succeed and directory checks
\* that pass (the input directory exists, the output directory exists or is
\* created, and is a directory), every producer eventually returns, having
\* pushed each of the nfiles entries exactly once.
C13_ProducerTermination ==
    /\ <>(StartFailed \/ TransformFailed \/ AllProducersDone)
    /\ []PushedEachOnce

\* C13 witness: the producer has returned after pushing more entries than
\* the buffer holds, each once, and left the buffer full.
C13_ReturnedAfterFullBuffer ==
    /\ nproducers = 1 /\ AllProducersDone
    /\ nfiles > BUFFER_SIZE
    /\ pushed = [f \in 1 .. nfiles |-> f]
    /\ counter = BUFFER_SIZE

\* the positions inside the while (true) of consumer_func
ConsumerLoop ==
    {"c_lock", "c_test", "c_wait", "c_reacq", "c_get", "c_notify",
     "c_load", "c_blur", "c_write", "c_unlock"}

\* the consumer is between two items: entering the body or in the wait loop
BetweenItems(t) == pc[t] \in {"c_lock", "c_test", "c_wait", "c_reacq"}

\* the consumer is in while (counter == 0) data_available.wait(lock): it is
\* suspended, or a wait has returned without a notification and the test
\* sends it back
InWaitLoop(t) == pc[t] = "c_wait" \/ (pc[t] = "c_test" /\ counter = 0)

\* the producers have returned and every item pushed has been popped and
\* transformed
Drained ==
    /\ aborted = "none"
    /\ AllProducersDone
    /\ Len(pushed) = nproducers * nfiles
    /\ popped = pushed
    /\ \A t \in Consumers : BetweenItems(t)

\* the buffer is empty and both indices are at N mod BUFFER_SIZE
EmptyAtEnd ==
    /\ counter = 0
    /\ in = out
    /\ in = (nproducers * nfiles) % BUFFER_SIZE

\* C15: no consumer ever leaves consumer_func (so main's join on the first
\* consumer never returns); once the producers have returned and every item
\* has been popped and transformed, that stays so for ever with counter = 0
\* and in = out = N mod BUFFER_SIZE, and under fair scheduling every
\* consumer ends up in the wait on data_available for ever.
C15_ConsumersNeverTerminate ==
    /\ [](\A t \in Consumers : pc[t] \in ConsumerLoop)
    /\ [](Drained => EmptyAtEnd)
    /\ [][Drained => Drained']_vars
    /\ <>[](aborted # "none" \/
            (Drained /\ EmptyAtEnd /\ \A t \in Consumers : InWaitLoop(t)))

\* C15 witness: more items than the buffer holds, an odd number of them, have
\* been pushed, popped and transformed and every consumer is suspended.
C15_AllSuspendedAtEnd ==
    /\ Drained
    /\ Len(pushed) > BUFFER_SIZE /\ Len(pushed) % BUFFER_SIZE # 0
    /\ Cardinality(written) > BUFFER_SIZE
    /\ in = Len(pushed) % BUFFER_SIZE
    /\ \A t \in Consumers : pc[t] = "c_wait"

====
